---- MODULE Spec2Model ----
(***************************************************************************)
(* Session-control layer of BPL_STEM_AIR_Perfusion_explore.py: the         *)
(* parameter store (par, init), the run controller (simu) with its state   *)
(* continuation, and the diagram registry (newplot, show, setLines).       *)
(* The FMU engine (pyfmi) is an external collaborator: it is modelled by   *)
(* the record `model` and by the nondeterministic outcome of simulate.     *)
(*                                                                         *)
(* Python strings that the code inspects character by character (names of  *)
(* parameters, states and engine locations) are sequences of one-character *)
(* strings.  Python dicts are sequences of <<key, value>> pairs, in        *)
(* insertion order.                                                        *)
(***************************************************************************)
EXTENDS Integers, Sequences, FiniteSets, TLC

VARIABLES
    parDict,        \* global parDict: logical name -> value
    stateDict,      \* global stateDict: state name -> last captured value
    prevFinalTime,  \* global prevFinalTime
    simulationTime, \* global simulationTime
    diagrams,       \* global diagrams: list of plot commands
    linecycler,     \* global linecycler: whether the name is bound, the list it cycles
                    \* over and the position of the element next(...) yields
    sim_res,        \* global sim_res: 0 = name not bound, 1 = a simulation result
    model,          \* the FMU handle, the engine's time and its state values
    nUpd,           \* number of par/init calls made so far (bounds the session)
    calls,          \* engine calls made by the latest operation, in order
    simArgs,        \* the simulate invocation of the latest operation, if any
    rendered,       \* plot commands evaluated by the latest operation, with their linetype
    last            \* the latest operation: name, arguments, outcome, printed messages

vars == <<parDict, stateDict, prevFinalTime, simulationTime, diagrams, linecycler,
          sim_res, model, nUpd, calls, simArgs, rendered, last>>

-----------------------------------------------------------------------------
(* Bounds of the model *)

MaxDur == 1        \* run lengths passed to simu are 0..MaxDur
MaxTime == 3       \* a session is followed while the end time of its last completed run is within MaxTime
MaxUpdCalls == 1   \* par/init calls in a session of runs (Spec)
MaxStoreCalls == 2 \* par/init calls in a session on the store alone (SpecStore)
MaxUpdLen == 2     \* names per par/init call in SpecStore
MaxBodyLen == 2    \* characters before the tail of a state name (SpecTranslate)

-----------------------------------------------------------------------------
(* Names *)

n_Vcc      == <<"V","c","c">>
n_N_start  == <<"N","_","s","t","a","r","t">>
n_DO_start == <<"D","O","_","s","t","a","r","t">>
n_qm       == <<"q","m">>
n_Yns      == <<"Y","n","s">>
n_qLpmax   == <<"q","L","p","m","a","x">>
n_scale    == <<"s","c","a","l","e">>
n_CL0      == <<"C","L","0">>
n_OTR      == <<"O","T","R">>
\* names that are not declared in parDict
n_Vc       == <<"V","c">>
n_X_start  == <<"X","_","s","t","a","r","t">>

\* state names the engine may list
n_N        == <<"N">>
n_c2       == <<"c","[","2","]">>
n_fIy      == <<"x",".","f","i","l","t","e","r","I",".","y">>
n_m1000    == <<"m","[","1","0","0","0","]">>
n_G        == <<"G">>

k_start    == <<"_","s","t","a","r","t">>
k_I_start  == <<"I","_","s","t","a","r","t">>
k_D_start  == <<"D","_","s","t","a","r","t">>
k_Iy       == <<"I",".","y">>
k_Dx       == <<"D",".","x">>

-----------------------------------------------------------------------------
(* Python dict and str operations *)

Keys(d) == [i \in 1..Len(d) |-> d[i][1]]
KeySet(d) == {d[i][1] : i \in 1..Len(d)}
Has(d, k) == k \in KeySet(d)
Get(d, k) == d[CHOOSE i \in 1..Len(d) : d[i][1] = k][2]
\* d[k] = v, d.update({k: v}): an existing key keeps its position
Put(d, k, v) ==
    IF Has(d, k) THEN [i \in 1..Len(d) |-> IF d[i][1] = k THEN <<k, v>> ELSE d[i]]
    ELSE Append(d, <<k, v>>)

RECURSIVE Update(_, _)
\* d.update(u)
Update(d, u) == IF u = <<>> THEN d ELSE Update(Put(d, Head(u)[1], Head(u)[2]), Tail(u))

\* s[-n:]
LastChars(s, n) == IF Len(s) <= n THEN s ELSE SubSeq(s, Len(s) - n + 1, Len(s))
\* s[:-n]
DropChars(s, n) == IF Len(s) <= n THEN <<>> ELSE SubSeq(s, 1, Len(s) - n)
\* sub in s
Contains(s, sub) ==
    \E i \in 1..(Len(s) - Len(sub) + 1) : SubSeq(s, i, i + Len(sub) - 1) = sub

-----------------------------------------------------------------------------
(* Values *)

\* Values a caller passes to par and init.  "np.nan" is the object numpy.nan,
\* "nan" is any other NaN float (float('nan'), the result of a computation).
ParVals == {"2.0", "np.nan", "nan", "None", ""}

\* parDict[key] in [np.nan, None, '']: list membership is identity or equality.
\* numpy.nan is found by identity; another NaN equals nothing, itself included.
Missing(v) == v \in {"np.nan", "None", ""}

\* parLocation: the engine location of each declared parameter
parLocation ==
    << <<n_Vcc, n_Vcc>>, <<n_N_start, n_N_start>>, <<n_DO_start, n_DO_start>>,
       <<n_qm, n_qm>>, <<n_Yns, n_Yns>>, <<n_qLpmax, n_qLpmax>>,
       <<n_scale, n_scale>>, <<n_CL0, n_CL0>>, <<n_OTR, n_OTR>> >>

\* parDict as the module creates it
parDict0 ==
    << <<n_Vcc, "0.040">>, <<n_N_start, "50">>, <<n_DO_start, "100">>,
       <<n_qm, "1.0e-6">>, <<n_Yns, "0.013">>, <<n_qLpmax, "0.008">>,
       <<n_scale, "1000.0">>, <<n_CL0, "8.0">>, <<n_OTR, "21">> >>

\* setLines(lines=['-','--',':','-.']): the default list
lines == <<"-", "--", ":", "-.">>

\* the lists a caller passes to setLines: the default, shorter ones, lists
\* with a marker that is no line style, and the empty list
LineLists == {lines, <<"-", "--">>, <<"-", "o">>, <<"o">>, <<>>}

\* the values matplotlib takes for linestyle= in plot and step; any other
\* string makes the call raise ValueError
LineStyles == {"-", "--", "-.", ":", "solid", "dashed", "dashdot", "dotted",
               "None", "none", " ", ""}

\* the name linecycler before any call of setLines
NoCycle == [bound |-> FALSE, lines |-> <<>>, pos |-> 0]

\* linecycler = cycle(lines)
Cycle(ls) == [bound |-> TRUE, lines |-> ls, pos |-> 1]

\* The lists model.get_states_list() may return, one per session.
StateLists == { <<n_N, n_c2, n_fIy>>, <<n_N, n_m1000, n_G>> }

\* Engine runs are told apart by the values the states end with.
Runs == {1, 2}
RunValues == << <<"a1", "a2", "a3">>, <<"b1", "b2", "b3">> >>
EndStates(names, r) == [i \in 1..Len(names) |-> <<names[i], RunValues[r][i]>>]

\* stateDict = model.get_states_list(): name -> variable object, then
\* stateDict.update(timeDiscreteStates) with timeDiscreteStates = {}
StateDict0(names) == [i \in 1..Len(names) |-> <<names[i], "ScalarVariable">>]

Model0(names) ==
    [handle |-> "fmu", time |-> 0,
     x |-> [i \in 1..Len(names) |-> <<names[i], "x0">>]]

-----------------------------------------------------------------------------
(* Bookkeeping of the latest operation *)

NoSim == [called |-> FALSE, start |-> 0, final |-> 0, mem |-> << >>]

Op(name, mode, upd, outcome, reported) ==
    [op |-> name, mode |-> mode, upd |-> upd, outcome |-> outcome,
     reported |-> reported]

-----------------------------------------------------------------------------
(* par and init *)

\* names a caller may pass: declared or not, with '_start' or without
UpdNames == <<n_Vcc, n_N_start, n_Vc, n_X_start>>

\* the keyword arguments of one call: up to n of the names, each at most once
\* (listed in the order of UpdNames), each with one of vals
Updates(vals, n) ==
    LET pick == UNION {[1..k -> (1..Len(UpdNames)) \X vals] : k \in 1..n}
        inOrder == {u \in pick : \A i, j \in 1..Len(u) : i < j => u[i][1] < u[j][1]}
    IN  {[i \in 1..Len(u) |-> <<UpdNames[u[i][1]], u[i][2]>>] : u \in inOrder}

\* par: x_temp, the updates whose key is in parDict
ParStagedMut(pd, upd) == upd
ParStaged(pd, upd) == SelectSeq(upd, LAMBDA p : Has(pd, p[1]))

\* par: one message per key that is not in parDict
ParReported(pd, upd) ==
    LET bad == SelectSeq(upd, LAMBDA p : ~Has(pd, p[1]))
    IN  [i \in 1..Len(bad) |-> <<"seems not an accessible parameter", bad[i][1]>>]

\* init: x_init, the updates whose key contains '_start'
InitStaged(pd, upd) == SelectSeq(upd, LAMBDA p : Contains(p[1], k_start))

\* init: one message per key without '_start'
InitReported(pd, upd) ==
    LET bad == SelectSeq(upd, LAMBDA p : ~Contains(p[1], k_start))
    IN  [i \in 1..Len(bad) |-> <<"seems not an initial value, use par() instead", bad[i][1]>>]

ParMut(upd) ==
    /\ nUpd' = nUpd + 1
    /\ parDict' = Update(parDict, ParStaged(parDict, upd))
    /\ last' = Op("par", "", upd, "returned", ParReported(parDict, upd))
    /\ calls' = <<>>
    /\ simArgs' = NoSim
    /\ rendered' = <<>>
    /\ simulationTime' = 1000
    /\ UNCHANGED <<stateDict, prevFinalTime, diagrams, linecycler, sim_res, model>>

\* par(**x_kwarg); parCheck is empty, so no requirement is evaluated
Par(upd) ==
    /\ nUpd' = nUpd + 1
    /\ parDict' = Update(parDict, ParStaged(parDict, upd))
    /\ last' = Op("par", "", upd, "returned", ParReported(parDict, upd))
    /\ calls' = <<>>
    /\ simArgs' = NoSim
    /\ rendered' = <<>>
    /\ UNCHANGED <<stateDict, prevFinalTime, simulationTime, diagrams, linecycler,
                   sim_res, model>>

\* init(**x_kwarg)
InitValues(upd) ==
    /\ nUpd' = nUpd + 1
    /\ parDict' = Update(parDict, InitStaged(parDict, upd))
    /\ last' = Op("init", "", upd, "returned", InitReported(parDict, upd))
    /\ calls' = <<>>
    /\ simArgs' = NoSim
    /\ rendered' = <<>>
    /\ UNCHANGED <<stateDict, prevFinalTime, simulationTime, diagrams, linecycler,
                   sim_res, model>>

-----------------------------------------------------------------------------
(* Diagram registry *)

\* plotType == 'Basic': the commands appended after diagrams.clear()
BasicDiagrams ==
    << "ax1.plot(t,sim_res['N'], color='b', linestyle=linetype)",
       "ax2.plot(t,sim_res['G'], color='b', linestyle=linetype)",
       "ax2.set_ylim(0)",
       "ax3.plot(t,sim_res['L'], color='b', linestyle=linetype)",
       "ax4.plot(t,sim_res['DO'], color='b', linestyle=linetype)",
       "ax4.set_ylim(0)",
       "ax5.plot(t,sim_res['Vcc'], color='b', linestyle=linetype)",
       "ax5.set_ylim([0, 0.050])",
       "ax6.step(t,sim_res['F'], color='b', linestyle=linetype)" >>

\* plotType == 'Comprehensive': the commands appended after diagrams.clear()
ComprehensiveDiagrams ==
    << "ax11.plot(t,sim_res['N'], color='b', linestyle=linetype)",
       "ax21.plot(t,sim_res['G'], color='b', linestyle=linetype)",
       "ax21.set_ylim(0)",
       "ax31.plot(t,sim_res['L'], color='b', linestyle=linetype)",
       "ax41.plot(t,sim_res['DO'], color='b', linestyle=linetype)",
       "ax41.set_ylim(0)",
       "ax51.step(t,sim_res['F'], color='b', linestyle=linetype)",
       "ax12.plot(t,sim_res['qN'], color='b', linestyle=linetype)",
       "ax12.step(t,sim_res['qNmax'], color='r', linestyle=linetype)",
       "ax22.plot(t,sim_res['qG'], color='b', linestyle=linetype)",
       "ax32.plot(t,sim_res['qLp']-sim_res['qLc'], color='b', linestyle=linetype)",
       "ax32.plot(t,sim_res['qLp'], color='g', linestyle=linetype)",
       "ax32.step(t,sim_res['qLc'], color='r', linestyle=linetype)",
       "ax42.step(t,sim_res['qO2'], color='r', linestyle=linetype)",
       "ax52.plot(t,sim_res['N']*sim_res['qO2'], color='b', linestyle=linetype)" >>

PlotTypes == {"TimeSeries", "Basic", "Comprehensive"}

\* the exception next(linecycler) raises, "" if none: NameError while the
\* name is not bound, StopIteration on a cycle over an empty list
NextError(c) ==
    IF ~c.bound THEN "NameError" ELSE IF c.lines = <<>> THEN "StopIteration" ELSE ""

\* linetype = next(linecycler): the element yielded
LineType(c) == c.lines[c.pos]

NextLineMut(c) == c
\* next(linecycler): the cycle after yielding, back at the first element after
\* the last
NextLine(c) == [c EXCEPT !.pos = (c.pos % Len(c.lines)) + 1]

\* the exception the loop `for command in diagrams: eval(command)` raises with
\* a sim_res at hand, "" if none: the first command of either layout passes
\* linestyle=linetype to plot, which raises ValueError for a linetype that is
\* no line style
ReplayError(cmds, linetype) ==
    IF cmds # <<>> /\ linetype \notin LineStyles THEN "ValueError" ELSE ""

\* for command in diagrams: eval(command), with the local linetype
Render(cmds, linetype) == [j \in 1..Len(cmds) |-> <<cmds[j], linetype>>]

\* setLines(lines=ls)
SetLines(ls) ==
    /\ linecycler' = Cycle(ls)
    /\ last' = Op("setLines", "", ls, "returned", <<>>)
    /\ calls' = <<>>
    /\ simArgs' = NoSim
    /\ rendered' = <<>>
    /\ UNCHANGED <<parDict, stateDict, prevFinalTime, simulationTime, diagrams,
                   sim_res, model, nUpd>>

\* newplot(plotType=...): setLines(), then the layout of the plot type
NewPlot(plotType) ==
    /\ linecycler' = Cycle(lines)
    /\ diagrams' = CASE plotType = "Basic" -> BasicDiagrams
                     [] plotType = "Comprehensive" -> ComprehensiveDiagrams
                     [] OTHER -> diagrams
    /\ last' = Op("newplot", plotType, <<>>, "returned", <<>>)
    /\ calls' = <<>>
    /\ simArgs' = NoSim
    /\ rendered' = <<>>
    /\ UNCHANGED <<parDict, stateDict, prevFinalTime, simulationTime, sim_res,
                   model, nUpd>>

\* show(): next(linecycler), then every command is evaluated
Show ==
    /\ calls' = <<>>
    /\ simArgs' = NoSim
    /\ IF NextError(linecycler) # ""
       THEN \* NameError: name 'linecycler' is not defined, or StopIteration
            /\ last' = Op("show", "", <<>>, NextError(linecycler), <<>>)
            /\ rendered' = <<>>
            /\ UNCHANGED linecycler
       ELSE /\ linecycler' = NextLine(linecycler)
            /\ IF diagrams # <<>> /\ sim_res = 0
               THEN \* the first command raises NameError: no sim_res yet
                    /\ last' = Op("show", "", <<>>, "NameError", <<>>)
                    /\ rendered' = <<>>
               ELSE IF ReplayError(diagrams, LineType(linecycler)) # ""
               THEN \* the first command raises ValueError
                    /\ last' = Op("show", "", <<>>,
                                  ReplayError(diagrams, LineType(linecycler)), <<>>)
                    /\ rendered' = <<>>
               ELSE /\ last' = Op("show", "", <<>>, "returned", <<>>)
                    /\ rendered' = Render(diagrams, LineType(linecycler))
    /\ UNCHANGED <<parDict, stateDict, prevFinalTime, simulationTime, diagrams,
                   sim_res, model, nUpd>>

-----------------------------------------------------------------------------
(* State continuation: from a state name to its initialization location *)

Loc(l) == [kind |-> "loc", loc |-> l]
\* the else branch of the chain: print and break
TooWide == [kind |-> "break", loc |-> <<>>]
\* key[-n] on a key shorter than n
IndexError == [kind |-> "IndexError", loc |-> <<>>]

TranslateMut(key) ==
    LET n == Len(key) IN
    IF n = 0 THEN IndexError
    ELSE IF key[n] # "]"
    THEN IF LastChars(key, 3) = k_Iy THEN Loc(DropChars(key, 10) \o k_I_start)
         ELSE IF LastChars(key, 3) = k_Dx THEN Loc(DropChars(key, 10) \o k_D_start)
         ELSE Loc(key \o k_start)
    ELSE IF n < 3 THEN IndexError
    ELSE IF key[n - 2] = "[" THEN Loc(DropChars(key, 3) \o k_start \o LastChars(key, 3))
    ELSE IF n < 4 THEN IndexError
    ELSE IF key[n - 3] = "[" THEN Loc(DropChars(key, 3) \o k_start \o LastChars(key, 3))
    ELSE IF n < 5 THEN IndexError
    ELSE IF key[n - 4] = "[" THEN Loc(DropChars(key, 5) \o k_start \o LastChars(key, 5))
    ELSE TooWide

\* the if/elif chain of the loop over stateDict.keys()
Translate(key) ==
    LET n == Len(key) IN
    IF n = 0 THEN IndexError
    ELSE IF key[n] # "]"
    THEN IF LastChars(key, 3) = k_Iy THEN Loc(DropChars(key, 10) \o k_I_start)
         ELSE IF LastChars(key, 3) = k_Dx THEN Loc(DropChars(key, 10) \o k_D_start)
         ELSE Loc(key \o k_start)
    ELSE IF n < 3 THEN IndexError
    ELSE IF key[n - 2] = "[" THEN Loc(DropChars(key, 3) \o k_start \o LastChars(key, 3))
    ELSE IF n < 4 THEN IndexError
    ELSE IF key[n - 3] = "[" THEN Loc(DropChars(key, 4) \o k_start \o LastChars(key, 4))
    ELSE IF n < 5 THEN IndexError
    ELSE IF key[n - 4] = "[" THEN Loc(DropChars(key, 5) \o k_start \o LastChars(key, 5))
    ELSE TooWide

-----------------------------------------------------------------------------
(* Engine calls *)

LoadCall == [op |-> "load", loc |-> <<>>, val |-> ""]
ResetCall == [op |-> "reset", loc |-> <<>>, val |-> ""]
SetCall(l, v) == [op |-> "set", loc |-> l, val |-> v]
SimulateCall == [op |-> "simulate", loc |-> <<>>, val |-> ""]

\* what the engine holds after the calls of log: each location written by a
\* set holds the value of the last set to it
MemOf(log) ==
    LET sets == {i \in 1..Len(log) : log[i].op = "set"}
    IN  [l \in {log[i].loc : i \in sets} |->
            log[CHOOSE i \in sets : log[i].loc = l /\ \A j \in (i + 1)..Len(log) :
                                       ~(log[j].op = "set" /\ log[j].loc = l)].val]

\* for key in parDict.keys(): model.set(parLocation[key], parDict[key])
\* The loop ends at the first key parLocation does not have (KeyError).
PushPars(pd, log) ==
    LET bad == {i \in 1..Len(pd) : ~Has(parLocation, pd[i][1])}
        n   == IF bad = {} THEN Len(pd) ELSE (CHOOSE i \in bad : \A j \in bad : i <= j) - 1
    IN  [calls |-> log \o [i \in 1..n |-> SetCall(Get(parLocation, pd[i][1]), pd[i][2])],
         exc |-> IF bad = {} THEN "" ELSE "KeyError"]

PushStatesMut(sd, log) ==
    LET bad == {i \in 1..Len(sd) : Translate(sd[i][1]).kind # "loc"}
        b   == IF bad = {} THEN Len(sd) + 1 ELSE CHOOSE i \in bad : \A j \in bad : i <= j
        sets == [i \in 1..(b - 1) |-> SetCall(Translate(sd[i][1]).loc, sd[i][2])]
    IN  [calls |-> <<Head(log)>> \o sets \o Tail(log),
         exc |-> IF bad # {} /\ Translate(sd[b][1]).kind = "IndexError"
                 THEN "IndexError" ELSE "",
         broke |-> bad # {} /\ Translate(sd[b][1]).kind = "break"]

\* for key in stateDict.keys(): model.set(<translated key>, stateDict[key])
\* The loop ends at the first key that is too wide (break) or too short (IndexError).
PushStates(sd, log) ==
    LET bad == {i \in 1..Len(sd) : Translate(sd[i][1]).kind # "loc"}
        b   == IF bad = {} THEN Len(sd) + 1 ELSE CHOOSE i \in bad : \A j \in bad : i <= j
    IN  [calls |-> log \o [i \in 1..(b - 1) |-> SetCall(Translate(sd[i][1]).loc, sd[i][2])],
         exc |-> IF bad # {} /\ Translate(sd[b][1]).kind = "IndexError"
                 THEN "IndexError" ELSE "",
         broke |-> bad # {} /\ Translate(sd[b][1]).kind = "break"]

\* the keys reported by the check of parDict, in dict order
MissingKeys(pd) ==
    LET bad == SelectSeq(pd, LAMBDA p : Missing(p[2]))
    IN  [i \in 1..Len(bad) |-> bad[i][1]]

InitialModes == {"Initial", "initial", "init"}
ContinuedModes == {"Continued", "continued", "cont"}

\* if prevFinalTime == 0: error, else: continue
ContinuedLegal(prev) == prev # 0

\* start_time and final_time of model.simulate
SimStart(mode, prev) == IF mode \in InitialModes THEN 0 ELSE prev
SimFinalMut(mode, prev, d) == prev + d
SimFinal(mode, prev, d) == IF mode \in InitialModes THEN d ELSE prev + d

\* for key in list(stateDict.keys()): stateDict[key] = model.get(key)[0]
CaptureDropMut(sd, x) == [i \in 1..(Len(sd) - 1) |-> <<sd[i][1], Get(x, sd[i][1])>>]
CaptureMut(sd, x) == [i \in 1..Len(sd) |-> IF i = 1 THEN sd[i] ELSE <<sd[i][1], Get(x, sd[i][1])>>]
Capture(sd, x) == [i \in 1..Len(sd) |-> <<sd[i][1], Get(x, sd[i][1])>>]

\* if simulationDone: ... prevFinalTime = model.time
NewPrevFinalTimeMut(done, prev, time) == time
NewPrevFinalTime(done, prev, time) == IF done THEN time ELSE prev

\* if simulationDone: ... stateDict[key] = model.get(key)[0]
NewStateDict(done, sd, x) == IF done THEN Capture(sd, x) ELSE sd

\* if model is None: model = load_fmu(fmu_model); a loaded model is kept
Loaded(m) == [m EXCEPT !.handle = "fmu"]

\* model.reset()
ResetModel(m) ==
    [m EXCEPT !.time = 0,
              !.x = [i \in 1..Len(m.x) |-> <<m.x[i][1], "x0">>]]

\* Lines 385-430 of simu, up to the call of model.simulate: the engine calls
\* made, the arguments of simulate if the call gets there, the exception
\* raised before it ("" if none) and the messages printed.
EnginePhase(d, mode) ==
    LET log0 == IF model.handle = "None" THEN <<LoadCall, ResetCall>> ELSE <<ResetCall>>
        pp   == PushPars(parDict, log0)
        ps   == IF mode \in InitialModes \/ pp.exc # ""
                THEN [calls |-> pp.calls, exc |-> pp.exc, broke |-> FALSE]
                ELSE PushStates(stateDict, pp.calls)
        sim  == [called |-> TRUE, start |-> SimStart(mode, prevFinalTime),
                 final |-> SimFinal(mode, prevFinalTime, d), mem |-> MemOf(ps.calls)]
    IN
    IF mode \in InitialModes \/ (mode \in ContinuedModes /\ ContinuedLegal(prevFinalTime))
    THEN IF ps.exc # ""
         THEN [calls |-> ps.calls, sim |-> NoSim, exc |-> ps.exc, reported |-> <<>>]
         ELSE [calls |-> Append(ps.calls, SimulateCall), sim |-> sim, exc |-> "",
               reported |-> IF ps.broke
                            THEN << <<"The state vecotr has more than 1000 states", <<>> >> >>
                            ELSE <<>>]
    ELSE [calls |-> log0, sim |-> NoSim, exc |-> "",
          reported |-> IF mode \in ContinuedModes
                       THEN << <<"Error: Simulation is first done with default mode = init'", <<>> >> >>
                       ELSE << <<"Simulation mode not correct", <<>> >> >>]

Modes == {"Initial", "Continued", "restart"}

\* The body of simu from the check of parDict on, as the values it leaves
\* behind.  e is the engine phase; ok and r are the engine's part in it:
\* whether simulate returns or raises, and which values the states end with.
SimuBody(e, ok, r) ==
    LET miss == MissingKeys(parDict)
        \* sim_res = model.simulate(...); simulationDone = True
        simulated == e.sim.called /\ ok
        m    == IF simulated
                THEN [Loaded(model) EXCEPT !.time = e.sim.final,
                                           !.x = EndStates(Keys(model.x), r)]
                ELSE ResetModel(Loaded(model))
        \* linetype = next(linecycler) raises NameError when no setLines()
        \* has bound the name, StopIteration when the cycle is over no element
        took == simulated /\ NextError(linecycler) = ""
        \* for command in diagrams: eval(command) may raise in its turn; the
        \* lines after it are reached only if it does not
        done == took /\ ReplayError(diagrams, LineType(linecycler)) = ""
        exc  == IF e.sim.called /\ ~ok THEN "FMUException" ELSE e.exc
    IN
    IF miss # <<>>
    THEN \* if value_missing>0: return
         [calls |-> <<>>, sim |-> NoSim, model |-> model,
          sim_res |-> sim_res, linecycler |-> linecycler, rendered |-> <<>>,
          stateDict |-> stateDict, prevFinalTime |-> prevFinalTime,
          outcome |-> "value_missing",
          reported |-> [i \in 1..Len(miss) |-> <<"Value missing", miss[i]>>]]
    ELSE [calls |-> e.calls, sim |-> e.sim, model |-> m,
          sim_res |-> IF simulated THEN 1 ELSE sim_res,
          linecycler |-> IF took THEN NextLine(linecycler) ELSE linecycler,
          rendered |-> IF done THEN Render(diagrams, LineType(linecycler)) ELSE <<>>,
          stateDict |-> NewStateDict(done, stateDict, m.x),
          prevFinalTime |-> NewPrevFinalTime(done, prevFinalTime, m.time),
          outcome |-> CASE exc # "" -> exc
                        [] simulated /\ ~took -> NextError(linecycler)
                        [] took /\ ~done -> ReplayError(diagrams, LineType(linecycler))
                        [] done -> "done"
                        [] OTHER -> "no_simulation",
          reported |-> IF exc = "" /\ ~simulated
                       THEN Append(e.reported, <<"Error: No simulation done", <<>> >>)
                       ELSE e.reported]

\* simu(simulationTimeLocal=d, mode=mode).  The engine's choices exist only
\* in the calls that get as far as model.simulate.
Simu(d, mode) ==
    /\ \E e \in {EnginePhase(d, mode)} :
       \E ok \in IF MissingKeys(parDict) = <<>> /\ e.sim.called THEN BOOLEAN ELSE {TRUE} :
       \E r \in IF MissingKeys(parDict) = <<>> /\ e.sim.called /\ ok THEN Runs ELSE {1} :
       \E b \in {SimuBody(e, ok, r)} :
          /\ simulationTime' = d
          /\ calls' = b.calls
          /\ simArgs' = b.sim
          /\ model' = b.model
          /\ sim_res' = b.sim_res
          /\ linecycler' = b.linecycler
          /\ rendered' = b.rendered
          /\ stateDict' = b.stateDict
          /\ prevFinalTime' = b.prevFinalTime
          /\ last' = Op("simu", mode, <<>>, b.outcome, b.reported)
    /\ UNCHANGED <<parDict, diagrams, nUpd>>

-----------------------------------------------------------------------------
(* Specifications *)

\* the session after import, for an engine that lists one of stateLists
InitFrom(stateLists) ==
    /\ parDict = parDict0
    /\ \E names \in stateLists :
          /\ stateDict = StateDict0(names)
          /\ model = Model0(names)
    /\ prevFinalTime = 0
    /\ simulationTime = 1000
    /\ diagrams = <<>>
    /\ linecycler = NoCycle
    /\ sim_res = 0
    /\ nUpd = 0
    /\ calls = <<>>
    /\ simArgs = NoSim
    /\ rendered = <<>>
    /\ last = Op("import", "", <<>>, "returned", <<>>)

Init == InitFrom(StateLists)

\* the single-name updates of a session of runs
ParInputs == {<< <<n_Vcc, v>> >> : v \in ParVals}
InitInputs == {<< <<n_N_start, "2.0">> >>, << <<n_X_start, "2.0">> >>, << <<n_Vcc, "2.0">> >>}

\* an interactive session of runs: any command, any number of times, for as
\* long as the end time of the last completed run is within MaxTime
Next ==
    \/ nUpd < MaxUpdCalls /\ \E upd \in ParInputs : Par(upd)
    \/ nUpd < MaxUpdCalls /\ \E upd \in InitInputs : InitValues(upd)
    \/ \E plotType \in {"TimeSeries", "Basic"} : NewPlot(plotType)
    \/ \E d \in 0..MaxDur, mode \in Modes : Simu(d, mode) /\ prevFinalTime' <= MaxTime

Spec == Init /\ [][Next]_vars

\* the parameter store alone, with calls that update several names
StoreVals == {"2.0", ""}

NextStore ==
    \/ nUpd < MaxStoreCalls /\ \E upd \in Updates(StoreVals, MaxUpdLen) : Par(upd)
    \/ nUpd < MaxStoreCalls /\ \E upd \in Updates(StoreVals, MaxUpdLen) : InitValues(upd)

SpecStore == Init /\ [][NextStore]_vars

-----------------------------------------------------------------------------
(* Properties of the session controller *)

\* names of the states the engine lists
EngineStates == Keys(model.x)

\* stateDict holds, for every state the engine lists, the engine's current value
CapturedFromEngine(sd, m) ==
    \A i \in 1..Len(m.x) : Has(sd, m.x[i][1]) /\ Get(sd, m.x[i][1]) = m.x[i][2]

\* how many of the printed messages name key
Mentions(reported, key) == Cardinality({i \in 1..Len(reported) : reported[i][2] = key})

\* the message of the loop over stateDict that ends it on a name too wide
Broke(reported) ==
    \E i \in 1..Len(reported) :
        reported[i][1] = "The state vecotr has more than 1000 states"

\* model.simulate was called and returned
SimulateReturned(l, sim) == l.op = "simu" /\ sim.called /\ l.outcome # "FMUException"

\* C1: a simu call in Continued mode while prevFinalTime is 0 ends without a
\* run, with an error message, and makes no engine call at all (no load, no
\* reset, no set, no simulate).
C1_NoEngineCallWithoutPriorRun ==
    [][(last'.op = "simu" /\ last'.mode \in ContinuedModes /\ prevFinalTime = 0)
          => (/\ last'.outcome \in {"no_simulation", "value_missing"}
              /\ last'.reported # <<>>
              /\ calls' = <<>>)]_vars

\* a missing value as the specification means it: any NaN, None or ''
MissingValue(v) == v \in {"np.nan", "nan", "None", ""}

\* C2: a simu call made while some parDict entry holds a missing value (NaN,
\* None or ''), in whatever mode, returns before any engine call and prints
\* "Value missing" for every name whose value is missing.
C2_MissingValueAbortsBeforeEngine ==
    [][(last'.op = "simu" /\ \E i \in 1..Len(parDict) : MissingValue(parDict[i][2]))
          => (/\ last'.outcome = "value_missing"
              /\ calls' = <<>>
              /\ \A i \in 1..Len(parDict) :
                    MissingValue(parDict[i][2])
                       => <<"Value missing", parDict[i][1]>> \in
                             {last'.reported[j] : j \in 1..Len(last'.reported)})]_vars

\* C3: a simu call that does not complete a run (missing value, Continued
\* with no prior run, unrecognised mode, an exception of model.simulate, or
\* any other exception) leaves prevFinalTime and every value of stateDict as
\* they were before the call.
C3_FailedRunKeepsContinuation ==
    [][(last'.op = "simu" /\ last'.outcome # "done")
          => (prevFinalTime' = prevFinalTime /\ stateDict' = stateDict)]_vars

\* C3 witness: model.simulate has raised in a session whose last completed run
\* ended at a time above 0 and left captured state values
C3_Witness ==
    /\ last.op = "simu" /\ last.outcome = "FMUException" /\ simArgs.called
    /\ prevFinalTime > 0
    /\ \E r \in Runs : stateDict = EndStates(Keys(stateDict), r)

\* C4: a simu call that aborts at the check of parDict, or in which
\* model.simulate raises, leaves simulationTime, prevFinalTime, stateDict and
\* parDict equal to their values before the call.
C4_FailedRunLeavesSessionUntouched ==
    [][(last'.op = "simu" /\ last'.outcome \in {"value_missing", "FMUException"})
          => (/\ simulationTime' = simulationTime
              /\ prevFinalTime' = prevFinalTime
              /\ stateDict' = stateDict
              /\ parDict' = parDict)]_vars

\* C5: after a par call, each updated name that was in parDict reads back the
\* new value, each name that was not in parDict is reported exactly once and
\* is not added, no other name is reported, and every entry the call does not
\* name is unchanged.
C5_ParAppliesKnownRejectsUnknown ==
    [][last'.op = "par"
          => LET upd == last'.upd
                 named == {upd[i][1] : i \in 1..Len(upd)}
             IN  /\ \A i \in 1..Len(upd) :
                       IF Has(parDict, upd[i][1])
                       THEN /\ Has(parDict', upd[i][1])
                            /\ Get(parDict', upd[i][1]) = upd[i][2]
                            /\ Mentions(last'.reported, upd[i][1]) = 0
                       ELSE /\ ~Has(parDict', upd[i][1])
                            /\ Mentions(last'.reported, upd[i][1]) = 1
                 /\ Len(last'.reported) = Cardinality({k \in named : ~Has(parDict, k)})
                 /\ Keys(parDict') = Keys(parDict)
                 /\ \A i \in 1..Len(parDict) :
                       parDict[i][1] \notin named => parDict'[i] = parDict[i]]_vars

\* C5 witness: one par call has updated a declared name and rejected an
\* undeclared one
C5_Witness ==
    /\ last.op = "par"
    /\ \E i, j \in 1..Len(last.upd) :
          /\ Has(parDict, last.upd[i][1])
          /\ Get(parDict, last.upd[i][1]) = last.upd[i][2]
          /\ Get(parDict0, last.upd[i][1]) # last.upd[i][2]
          /\ ~Has(parDict, last.upd[j][1])
          /\ Mentions(last.reported, last.upd[j][1]) = 1

\* C6: init applies an update only if its name is in parDict and contains
\* '_start'; every other name is reported once and skipped, so an init call
\* never adds a key to parDict.
C6_InitAcceptsOnlyDeclaredInitialValues ==
    [][last'.op = "init"
          => LET upd == last'.upd IN
             /\ KeySet(parDict') = KeySet(parDict)
             /\ \A i \in 1..Len(upd) :
                   IF Has(parDict, upd[i][1]) /\ Contains(upd[i][1], k_start)
                   THEN Get(parDict', upd[i][1]) = upd[i][2]
                   ELSE Mentions(last'.reported, upd[i][1]) = 1]_vars

\* C7: when a Continued simu call made after a run that ended at T > 0 gets
\* to model.simulate, the call has start_time T and final_time T + d, and at
\* that moment the initialization location of every state holds the value
\* stateDict has for that state.
C7_ContinuedStartsWherePreviousEnded ==
    [][(last'.op = "simu" /\ last'.mode \in ContinuedModes /\ prevFinalTime > 0
          /\ simArgs'.called)
          => (/\ simArgs'.start = prevFinalTime
              /\ simArgs'.final = prevFinalTime + simulationTime'
              /\ \A i \in 1..Len(stateDict) :
                    LET t == Translate(stateDict[i][1]) IN
                    t.kind = "loc"
                       => (/\ t.loc \in DOMAIN simArgs'.mem
                           /\ simArgs'.mem[t.loc] = stateDict[i][2]))]_vars

\* C8: after a simu call in Initial mode with run length d that completes,
\* stateDict holds the engine's current value for every state the engine
\* lists, and prevFinalTime is the engine's time, which is d.
C8_InitialRunCapturesStates ==
    (last.op = "simu" /\ last.mode \in InitialModes /\ last.outcome = "done")
       => (/\ CapturedFromEngine(stateDict, model)
           /\ KeySet(stateDict) = {EngineStates[i] : i \in 1..Len(EngineStates)}
           /\ prevFinalTime = model.time
           /\ prevFinalTime = simulationTime)

\* C8 witness: an Initial run of length above 0 has completed after an earlier
\* run had left other state values behind
C8_Witness ==
    /\ last.op = "simu" /\ last.mode \in InitialModes /\ last.outcome = "done"
    /\ simulationTime > 0
    /\ simArgs.start = 0
    /\ stateDict = EndStates(Keys(stateDict), 2)
    /\ linecycler.pos > 2

\* C9: in every session state, whenever model.simulate returns inside simu,
\* the same call replays the diagram registry, refreshes every value of
\* stateDict from the engine and sets prevFinalTime to the engine's time.
C9_ReturnedSimulateIsRecorded ==
    SimulateReturned(last, simArgs)
       => (/\ Len(rendered) = Len(diagrams)
           /\ CapturedFromEngine(stateDict, model)
           /\ prevFinalTime = model.time)

\* C10: a Continued run whose loop over stateDict stops on a name ending in
\* ']' with no '[' among the 5 last characters fails: model.simulate is not
\* called, every location written is the location of a parameter or the
\* translation of a state name, and prevFinalTime is not advanced.
C10_TooWideIndexFailsRun ==
    [][(last'.op = "simu" /\ Broke(last'.reported))
          => (/\ ~simArgs'.called
              /\ last'.outcome # "done"
              /\ \A i \in 1..Len(calls') :
                    calls'[i].op = "set"
                       => \/ \E j \in 1..Len(parLocation) : calls'[i].loc = parLocation[j][2]
                          \/ \E j \in 1..Len(stateDict) :
                                Translate(stateDict[j][1]) = Loc(calls'[i].loc)
              /\ prevFinalTime' = prevFinalTime)]_vars


-----------------------------------------------------------------------------
(* Legality of a continuation *)

\* stateDict takes values of the engine only at the end of a completed run
\* (until then it holds the objects of model.get_states_list())
RunCompleted(sd) == \E i \in 1..Len(sd) : sd[i][2] # "ScalarVariable"

\* the message of a Continued call that is refused
Refused(reported) ==
    \E i \in 1..Len(reported) :
        reported[i][1] = "Error: Simulation is first done with default mode = init'"

\* C11: a simu call in Continued mode that passes the check of parDict is
\* accepted (not refused, and the engine is written to) if and only if a run
\* has completed before it in the session, whatever length that run had.
C11_ContinuedLegalIffRunCompleted ==
    [][(last'.op = "simu" /\ last'.mode \in ContinuedModes
          /\ last'.outcome # "value_missing")
          => ((~Refused(last'.reported) /\ Len(calls') > 1)
                 <=> RunCompleted(stateDict))]_vars


-----------------------------------------------------------------------------
(* Frame of par and init *)

\* C12: a par or init call makes no engine call and leaves stateDict,
\* prevFinalTime, simulationTime, diagrams and the engine as they were; only
\* parDict may change.
C12_ParInitTouchOnlyParDict ==
    [][last'.op \in {"par", "init"}
          => (/\ calls' = <<>>
              /\ ~simArgs'.called
              /\ model' = model
              /\ stateDict' = stateDict
              /\ prevFinalTime' = prevFinalTime
              /\ simulationTime' = simulationTime
              /\ diagrams' = diagrams)]_vars

\* C12 witness: par has changed parDict in a session that has a completed
\* run behind it and a filled diagram registry
C12_Witness ==
    /\ last.op = "par"
    /\ Get(parDict, n_Vcc) = "2.0"
    /\ prevFinalTime > 0
    /\ RunCompleted(stateDict)
    /\ diagrams # <<>>


-----------------------------------------------------------------------------
(* Translation of state names *)

\* State names an engine may list: a body of up to MaxBodyLen characters
\* followed by one of the tails the if/elif chain of simu tells apart.
NameChars == {"x", "[", "]", "2"}
NameBodies == UNION {[1..k -> NameChars] : k \in 0..MaxBodyLen}
NameTails ==
    { <<>>, <<"]">>, <<"2","]">>, <<"2","2","]">>, <<"2","2","2","]">>,
      <<"2","2","2","2","]">>, k_Iy, k_Dx,
      <<".","f","i","l","t","e","r","I",".","y">>,
      <<".","f","i","l","t","e","r","D",".","x">> }
TranslateNames == {b \o t : b \in NameBodies, t \in NameTails} \ {<<>>}

\* sessions of runs on an engine that lists one state, of any of the names
InitTranslate == InitFrom({<<key>> : key \in TranslateNames})

NextTranslate ==
    \/ NewPlot("TimeSeries")
    \/ \E mode \in {"Initial", "Continued"} : Simu(1, mode) /\ prevFinalTime' <= MaxTime

SpecTranslate == InitTranslate /\ [][NextTranslate]_vars

\* the widths k in 1..3 for which key ends in '[' + k index characters + ']'
IndexWidths(key) ==
    LET n == Len(key)
    IN  {k \in 1..3 : n >= k + 2 /\ key[n] = "]" /\ key[n - k - 1] = "["}

\* a name the four rules apply to: not one that ends in ']' with no '[' 1-3
\* index characters before it
Translatable(key) == key[Len(key)] # "]" \/ IndexWidths(key) # {}

\* the four rules, in their order
StartName(key) ==
    LET n == Len(key)
        w == IndexWidths(key)
        k == CHOOSE a \in w : \A b \in w : a <= b
        cut == IF n > 10 THEN SubSeq(key, 1, n - 10) ELSE <<>>
    IN  IF w # {}
        THEN SubSeq(key, 1, n - k - 2) \o k_start \o SubSeq(key, n - k - 1, n)
        ELSE IF n >= 3 /\ SubSeq(key, n - 2, n) = k_Iy THEN cut \o k_I_start
        ELSE IF n >= 3 /\ SubSeq(key, n - 2, n) = k_Dx THEN cut \o k_D_start
        ELSE key \o k_start

\* C13 as first stated: in every Continued run that gets to the loops of
\* model.set, every state name gets a location by the four rules, the fourth
\* one ('_start' appended) covering every name the first three do not: the
\* locations written are those of the parameters followed by the translation
\* of each state name.
C13_FourRulesCoverEveryName ==
    [][(last'.op = "simu" /\ last'.mode \in ContinuedModes /\ prevFinalTime # 0
          /\ last'.outcome # "value_missing")
          => LET pars == [i \in 1..Len(parDict) |->
                            SetCall(Get(parLocation, parDict[i][1]), parDict[i][2])]
                 states == [i \in 1..Len(stateDict) |->
                            SetCall(StartName(stateDict[i][1]), stateDict[i][2])]
             IN  SelectSeq(calls', LAMBDA c : c.op = "set") = pars \o states]_vars

\* C13, amended: a name ending in ']' with no '[' 1-3 index characters before
\* it has no translation, and the loop over the states ends at it.  In every
\* Continued run that gets to the loops of model.set, the
\* locations written are those of the parameters followed by, for each state
\* name up to the first one the four rules do not apply to, the name
\* translated by the four rules: '_start' inserted before '[' for a 1-3
\* character index, the last 10 characters replaced by 'I_start' for a name
\* ending in 'I.y', by 'D_start' for one ending in 'D.x', '_start' appended
\* otherwise; the same name gets the same location in every run.
C13_TranslationFollowsTheFourRules ==
    [][(last'.op = "simu" /\ last'.mode \in ContinuedModes /\ prevFinalTime # 0
          /\ last'.outcome # "value_missing")
          => LET bad == {i \in 1..Len(stateDict) : ~Translatable(stateDict[i][1])}
                 m == IF bad = {} THEN Len(stateDict)
                      ELSE (CHOOSE i \in bad : \A j \in bad : i <= j) - 1
                 pars == [i \in 1..Len(parDict) |->
                            SetCall(Get(parLocation, parDict[i][1]), parDict[i][2])]
                 states == [i \in 1..m |->
                            SetCall(StartName(stateDict[i][1]), stateDict[i][2])]
             IN  SelectSeq(calls', LAMBDA c : c.op = "set") = pars \o states]_vars

\* C13 witness: a Continued run has written the captured value of a state
\* with a 3-character index to its initialization location
C13_Witness ==
    /\ last.op = "simu" /\ last.mode \in ContinuedModes /\ last.outcome = "done"
    /\ \E i \in 1..Len(calls) :
          /\ calls[i].op = "set"
          /\ calls[i].loc = <<"x">> \o k_start \o <<"[","2","2","2","]">>
          /\ calls[i].val \in {"a1", "b1"}


-----------------------------------------------------------------------------
(* Order of the engine calls *)

\* C14: in every simu call that gets to model.simulate the engine calls are,
\* in this order: one reset, one set per entry of parDict (in dict order, with
\* the entry's value), in Continued mode one set per entry of stateDict (in
\* dict order, with the captured value), and one simulate; nothing else.
C14_ResetThenSetsThenSimulate ==
    [][(last'.op = "simu" /\ simArgs'.called)
          => LET n == Len(calls')
                 np == Len(parDict)
                 ns == IF last'.mode \in ContinuedModes THEN Len(stateDict) ELSE 0
             IN  /\ n = 1 + np + ns + 1
                 /\ calls'[1] = ResetCall
                 /\ \A i \in 1..np :
                       calls'[1 + i] =
                          SetCall(Get(parLocation, parDict[i][1]), parDict[i][2])
                 /\ \A i \in 1..ns :
                       /\ calls'[1 + np + i].op = "set"
                       /\ calls'[1 + np + i].val = stateDict[i][2]
                 /\ calls'[n] = SimulateCall]_vars


-----------------------------------------------------------------------------
(* Sessions that use every command *)

\* par, init, newplot with every plot type, show and simu
NextSession ==
    \/ nUpd < MaxUpdCalls /\ Par(<< <<n_Vcc, "">> >>)
    \/ nUpd < MaxUpdCalls /\ InitValues(<< <<n_X_start, "2.0">> >>)
    \/ \E plotType \in PlotTypes : NewPlot(plotType)
    \/ \E ls \in LineLists : SetLines(ls)
    \/ Show
    \/ \E mode \in {"Initial", "Continued", "cont", "restart"} : Simu(1, mode) /\ prevFinalTime' <= MaxTime

SpecSession == Init /\ [][NextSession]_vars

\* C15: in every state of a session the keys of stateDict are the state names
\* the engine listed at the start, no more and no fewer.
C15_StateDictKeysAreEngineStates ==
    /\ Len(stateDict) = Len(EngineStates)
    /\ KeySet(stateDict) = {EngineStates[i] : i \in 1..Len(EngineStates)}

\* C15 witness: a session that has completed runs up to time 2 and has then
\* replayed a filled diagram registry with show
C15_Witness ==
    /\ last.op = "show" /\ last.outcome = "returned" /\ rendered # <<>>
    /\ RunCompleted(stateDict)
    /\ prevFinalTime = 2
    /\ simulationTime = 1


-----------------------------------------------------------------------------
(* Diagram registry and line styles *)

\* C16: after every newplot call, whatever its plotType (the default
\* 'TimeSeries' included), diagrams holds the commands of the selected layout
\* and nothing registered by an earlier call: the 9 commands of 'Basic', the
\* 15 of 'Comprehensive', none for a plot type without commands.
C16_NewPlotClearsRegistry ==
    [][last'.op = "newplot"
          => diagrams' = CASE last'.mode = "Basic" -> BasicDiagrams
                           [] last'.mode = "Comprehensive" -> ComprehensiveDiagrams
                           [] OTHER -> <<>>]_vars


\* C17: newplot puts linecycler at the first style of ['-', '--', ':', '-.'].
\* Each show call and each completed simu call evaluates every command of
\* diagrams, in the order of the registry, with the one style the cycle
\* stands at, and moves the cycle on by one position, from the last style of
\* its list back to the first: with k renderings made on the cycle newplot
\* set up, it stands at style number k mod 4.  On the cycle newplot set up, a
\* simu call that does not complete a run leaves the cycle where it is, and so
\* do par and init on any cycle.  On a cycle a setLines call has put in its
\* place, a simu call fails after taking a style only when a command raises
\* ValueError on a style that is no line style.
C17_EachRenderingTakesNextStyle ==
    [][LET style == <<"-", "--", ":", "-.">>
           c == linecycler
           isRendering == \/ last'.op = "show" /\ c.bound /\ c.lines # <<>>
                          \/ last'.op = "simu" /\ last'.outcome = "done"
       IN  /\ last'.op = "newplot"
                 => linecycler' = [bound |-> TRUE, lines |-> style, pos |-> 1]
           /\ isRendering
                 => /\ linecycler'.bound
                    /\ linecycler'.lines = c.lines
                    /\ linecycler'.pos = IF c.pos = Len(c.lines) THEN 1 ELSE c.pos + 1
                    /\ c.lines = style => linecycler'.pos - 1 = c.pos % 4
                    /\ (last'.op = "simu" \/ last'.outcome = "returned")
                          => /\ Len(rendered') = Len(diagrams)
                             /\ \A j \in 1..Len(diagrams) :
                                   rendered'[j] = <<diagrams[j], c.lines[c.pos]>>
           /\ (last'.op \in {"simu", "show"} /\ c.bound /\ c.lines = style)
                 => last'.outcome # "ValueError"
           /\ (last'.op \in {"simu", "par", "init"} /\ ~isRendering)
                 => IF last'.outcome = "ValueError"
                    THEN /\ c.lines[c.pos] \notin LineStyles
                         /\ diagrams # <<>>
                         /\ rendered' = <<>>
                         /\ linecycler'.pos = IF c.pos = Len(c.lines) THEN 1 ELSE c.pos + 1
                    ELSE linecycler' = linecycler]_vars

\* C17 witness: a completed run has drawn the registered commands with the
\* fourth style of the list of newplot, and the cycle is back at the first
\* style
C17_Witness ==
    /\ last.op = "simu" /\ last.outcome = "done"
    /\ rendered # <<>>
    /\ \A j \in 1..Len(rendered) : rendered[j][2] = "-."
    /\ linecycler = Cycle(lines)


-----------------------------------------------------------------------------
(* Parameter locations *)

\* C18: in every state, every key of parDict is a key of parLocation, so the
\* loop of simu over parDict finds a location for each entry.
C18_EveryParameterHasLocation ==
    \A i \in 1..Len(parDict) : Has(parLocation, parDict[i][1])


-----------------------------------------------------------------------------
(* Captured states against initial values of parDict *)

\* C19: when a Continued run gets to model.simulate, every location that
\* was written both for an entry of parDict and for a state of stateDict holds
\* the captured value of the state, whatever parDict holds for it (an init
\* call between the runs included).
C19_CapturedStateOverridesInitialValue ==
    [][(last'.op = "simu" /\ last'.mode \in ContinuedModes /\ simArgs'.called)
          => \A i \in 1..Len(stateDict) :
                LET t == Translate(stateDict[i][1])
                    writes == {j \in 1..Len(calls') :
                                 calls'[j].op = "set" /\ calls'[j].loc = t.loc}
                IN  (/\ t.kind = "loc"
                     /\ \E j \in 1..Len(parDict) :
                           Has(parLocation, parDict[j][1])
                              /\ Get(parLocation, parDict[j][1]) = t.loc
                     /\ Cardinality(writes) >= 2)
                       => simArgs'.mem[t.loc] = stateDict[i][2]]_vars

\* C19 witness: after init(N_start=2.0) a Continued run has started with
\* N_start at the value captured for state N, not at 2.0
C19_Witness ==
    /\ last.op = "simu" /\ last.mode \in ContinuedModes /\ simArgs.called
    /\ Get(parDict, n_N_start) = "2.0"
    /\ Get(stateDict, n_N) \in {"a1", "b1"}
    /\ simArgs.mem[n_N_start] \in {"a1", "b1"}


-----------------------------------------------------------------------------
(* The end time of successive runs *)

\* C20: a completed simu call leaves prevFinalTime at the final time of its
\* run: the run length d after an Initial run, whatever ran before, and the
\* earlier prevFinalTime plus d after a Continued run, so that after
\* Initial(d0), Continued(d1), ..., Continued(dn) it is d0 + d1 + ... + dn.
C20_EndTimeAccumulates ==
    [][(last'.op = "simu" /\ last'.outcome = "done")
          => /\ prevFinalTime' = simArgs'.final
             /\ prevFinalTime' = IF last'.mode \in InitialModes
                                 THEN simulationTime'
                                 ELSE prevFinalTime + simulationTime']_vars

\* C20 witness: a Continued run of length above 0 has completed after runs
\* that ended at a time no single run reaches, an earlier Continued run of
\* length above 0 among them
C20_Witness ==
    /\ last.op = "simu" /\ last.mode \in ContinuedModes /\ last.outcome = "done"
    /\ simulationTime > 0
    /\ simArgs.start > MaxDur
    /\ prevFinalTime = simArgs.start + simulationTime

=============================================================================
